---- MODULE Spec2Model ----
(***************************************************************************)
(* zellij-command-hook: the Command Simplifier (src/src/nvim.rs, and the   *)
(* command hook's copy in src/src/main.rs), the session-layout transform   *)
(* and the directory scan (src/src/kdl.rs).                                *)
(*                                                                         *)
(* A Rust string is a sequence of one-character strings, so that           *)
(* split(' '), split_whitespace, join, starts_with, ends_with and contains *)
(* are computed character by character.  An Option is a sequence of length *)
(* 0 (None) or 1 (Some).                                                   *)
(***************************************************************************)
EXTENDS Naturals, Sequences, FiniteSets

VARIABLES
    content,    \* the text of the session-layout file
    prev,       \* the text the last pass of process_kdl_content was given
    changes,    \* the Vec<Changes> the last pass returned
    passes,     \* how many passes of process_kdl_content have run
    command,    \* the command string handed to format_nvim
    formatted,  \* Option: what format_nvim of nvim.rs returned for `command`
    printed,    \* Option: what main printed for RESURRECT_COMMAND = `command`
    is_filename, \* Option: what could_be_filename returned for the token `command`
    dry_run,    \* scan_layouts' dry_run flag
    disk,       \* the files of the scanned directory, in read_dir order
    pending,    \* the indices of the session-layout files still to be processed
    scanned,    \* scan_layouts' `changes`: the Vec<Changes> of the scan so far
    written,    \* the indices of the files std::fs::write was called on
    log,        \* the file counts of the lines appended to the log file
    scanning    \* scan_layouts has been called and has not returned

kdl_vars == <<content, prev, changes, passes>>
fmt_vars == <<command, formatted, printed, is_filename>>
scan_vars == <<dry_run, disk, pending, scanned, written, log, scanning>>
vars == <<kdl_vars, fmt_vars, scan_vars>>

----------------------------------------------------------------------------
(* Option *)

None == <<>>
Some(x) == <<x>>
is_some(o) == o # <<>>
unwrap(o) == o[1]

----------------------------------------------------------------------------
(* Strings *)

nvim == <<"n", "v", "i", "m">>
nvim_exe == <<"n", "v", "i", "m", ".", "e", "x", "e">>
nvim_sp == <<"n", "v", "i", "m", " ">>
direnv == <<"d", "i", "r", "e", "n", "v">>
direnv_sp == <<"d", "i", "r", "e", "n", "v", " ">>
dr_no_space == <<"d", "r">>
dr_sp == <<"d", "r", " ">>
exec == <<"e", "x", "e", "c">>
dot == <<".">>
dash == <<"-">>
space == <<" ">>

starts_with(s, p) == Len(p) <= Len(s) /\ SubSeq(s, 1, Len(p)) = p

ends_with(s, p) == Len(p) <= Len(s) /\ SubSeq(s, Len(s) - Len(p) + 1, Len(s)) = p

contains(s, p) == \E i \in 0..(Len(s) - Len(p)) : SubSeq(s, i + 1, i + Len(p)) = p

strip_prefix(s, p) == IF starts_with(s, p) THEN Some(SubSeq(s, Len(p) + 1, Len(s))) ELSE None

unwrap_or(o, d) == IF is_some(o) THEN unwrap(o) ELSE d

Reverse(q) == [i \in 1..Len(q) |-> q[Len(q) + 1 - i]]

\* str::split(c): the pieces between the occurrences of c; never empty.
RECURSIVE split(_, _)
split(s, c) ==
    IF \A i \in 1..Len(s) : s[i] # c
    THEN <<s>>
    ELSE LET i == CHOOSE k \in 1..Len(s) : s[k] = c /\ \A j \in 1..(k - 1) : s[j] # c
         IN  <<SubSeq(s, 1, i - 1)>> \o split(SubSeq(s, i + 1, Len(s)), c)

\* [String]::join(sep)
RECURSIVE join(_, _)
join(parts, sep) ==
    IF parts = <<>> THEN <<>>
    ELSE IF Len(parts) = 1 THEN parts[1]
    ELSE parts[1] \o sep \o join(Tail(parts), sep)

is_whitespace(c) == c \in {" ", "\t", "\n"}

\* str::split_whitespace(): the maximal runs of non-whitespace; no empty piece.
RECURSIVE split_whitespace(_)
split_whitespace(s) ==
    IF s = <<>> THEN <<>>
    ELSE IF is_whitespace(s[1]) THEN split_whitespace(Tail(s))
    ELSE LET n == CHOOSE k \in 1..Len(s) :
                      /\ \A j \in 1..k : ~is_whitespace(s[j])
                      /\ (k = Len(s) \/ is_whitespace(s[k + 1]))
         IN  <<SubSeq(s, 1, n)>> \o split_whitespace(SubSeq(s, n + 1, Len(s)))

\* str::trim_start_matches(c)
RECURSIVE trim_start_matches(_, _)
trim_start_matches(s, c) ==
    IF s # <<>> /\ s[1] = c THEN trim_start_matches(Tail(s), c) ELSE s

----------------------------------------------------------------------------
(* src/src/nvim.rs *)

\* (a slip: '=' is not in the list)
forbidden_without_equals == {"<", ">", "\"", ":", "|", "?", ";"}

forbidden == {"<", ">", "\"", ":", "|", "?", ";", "="}

NUL == "\\0"   \* the NUL byte, as one character

could_be_filename(s) ==
    IF \E i \in 1..Len(s) : s[i] = NUL THEN FALSE
    ELSE IF \E i \in 1..Len(s) : s[i] \in forbidden THEN FALSE
    ELSE TRUE

\* The loop `for part in parts.iter().rev()` from index i down: what it pushes
\* to file_names, in push order.
RECURSIVE file_names_from(_, _)
file_names_from(parts, i) ==
    IF i = 0 THEN <<>>
    ELSE LET part == parts[i] IN
         IF starts_with(part, dash) THEN <<>>
         ELSE IF ends_with(part, nvim) THEN <<>>
         ELSE IF could_be_filename(part) THEN <<part>> \o file_names_from(parts, i - 1)
         ELSE <<>>

\* (a slip: no pass-through for a first token that is not the editor)
format_nvim_of_any_command(cmd) ==
    nvim_sp \o join(Reverse(file_names_from(split(cmd, " "), Len(split(cmd, " ")))), space)

format_nvim(cmd) ==
    LET parts == split(cmd, " ")
        first == parts[1]
    IN  IF ~ends_with(first, nvim) /\ ~ends_with(first, nvim_exe)
        THEN cmd
        ELSE LET file_names == file_names_from(parts, Len(parts))
                 files == join(Reverse(file_names), space)
             IN  nvim_sp \o files

----------------------------------------------------------------------------
(* src/src/main.rs: the command hook's own copy of the simplifier *)

main_forbidden == {"<", ">", "\"", ":", "|", "?", ";", "="}

main_could_be_filename(s) ==
    IF \E i \in 1..Len(s) : s[i] = NUL THEN FALSE
    ELSE IF \E i \in 1..Len(s) : s[i] \in main_forbidden THEN FALSE
    ELSE TRUE

\* The loop `for part in parts.iter().rev()` of main.rs from index i down: it
\* breaks on a flag and on a token that fails the classifier, and on nothing else.
RECURSIVE main_file_names_from(_, _)
main_file_names_from(parts, i) ==
    IF i = 0 THEN <<>>
    ELSE IF starts_with(parts[i], dash) THEN <<>>
    ELSE IF main_could_be_filename(parts[i])
         THEN <<parts[i]>> \o main_file_names_from(parts, i - 1)
    ELSE <<>>

\* format_nvim of main.rs, on the parts of the command
main_format_parts(cmd, parts) ==
    IF parts = <<>> THEN cmd
    ELSE IF ~ends_with(parts[1], nvim) /\ ~ends_with(parts[1], nvim_exe) THEN cmd
    ELSE nvim_sp \o join(Reverse(main_file_names_from(parts, Len(parts))), space)

main_format_nvim(cmd) == main_format_parts(cmd, split(cmd, " "))

----------------------------------------------------------------------------
(* The kdl crate's document model, as src/src/kdl.rs uses it.               *)
(*   KdlValue : [kind, s]      kind "string" carries the string s           *)
(*   KdlEntry : [name, value]  name is an Option (None: positional)         *)
(*   KdlNode  : [name, entries, children, leading]                          *)
(*              children: Option of a node sequence, leading: Option<String>*)
(* A file's text is the same tree with every node's leading whitespace      *)
(* written out (a plain string, no Option).                                 *)

KdlString(s) == [kind |-> "string", s |-> s]
KdlInteger(s) == [kind |-> "integer", s |-> s]

\* KdlValue::as_string
as_string(v) == IF v.kind = "string" THEN Some(v.s) ELSE None

\* KdlEntry::new(value) and KdlEntry::new_prop(name, value)
KdlEntry_new(v) == [name |-> None, value |-> v]
KdlEntry_new_prop(n, v) == [name |-> Some(n), value |-> v]

\* KdlNode::new(name)
KdlNode_new(n) == [name |-> n, entries |-> <<>>, children |-> None, leading |-> None]

Min(S) == CHOOSE x \in S : \A y \in S : x <= y

\* content.parse::<KdlDocument>(): every node keeps the whitespace before it.
RECURSIVE parse(_)
parse(text) ==
    [i \in 1..Len(text) |->
        [name |-> text[i].name,
         entries |-> text[i].entries,
         children |-> IF text[i].children = None THEN None
                      ELSE Some(parse(unwrap(text[i].children))),
         leading |-> Some(text[i].leading)]]

\* The indentation the printer gives a node that has no leading of its own
\* (one space per nesting level here).
Indent(depth) == [i \in 1..depth |-> " "]

\* doc.to_string()
RECURSIVE to_string(_, _)
to_string(nodes, depth) ==
    [i \in 1..Len(nodes) |->
        [name |-> nodes[i].name,
         entries |-> nodes[i].entries,
         children |-> IF nodes[i].children = None THEN None
                      ELSE Some(to_string(unwrap(nodes[i].children), depth + 1)),
         leading |-> IF is_some(nodes[i].leading) THEN unwrap(nodes[i].leading)
                     ELSE Indent(depth)]]

----------------------------------------------------------------------------
(* src/src/kdl.rs: accessors *)

\* Changes { file_path: String::new(), original_command, simplified_command }
Changes(original, simplified) ==
    [file_path |-> <<>>, original_command |-> original, simplified_command |-> simplified]

get_entry_string_value(node, name) ==
    LET idx == {i \in 1..Len(node.entries) : node.entries[i].name = Some(name)}
    IN  IF idx = {} THEN None ELSE as_string(node.entries[Min(idx)].value)

is_direnv_tab(node) ==
    LET idx == {i \in 1..Len(node.entries) :
                   /\ node.entries[i].name = Some("name")
                   /\ is_some(as_string(node.entries[i].value))}
    IN  IF idx = {} THEN FALSE
        ELSE starts_with(unwrap(as_string(node.entries[Min(idx)].value)), dr_sp)

\* The index of the first child named "args" (the empty set: none).
ArgsIdx(kids) == {i \in 1..Len(kids) : kids[i].name = "args"}

\* .filter(|e| e.name().is_none()).filter_map(|e| e.value().as_string())
RECURSIVE positional_strings(_)
positional_strings(entries) ==
    IF entries = <<>> THEN <<>>
    ELSE LET e == Head(entries) IN
         (IF e.name = None /\ is_some(as_string(e.value)) THEN <<e.value.s>> ELSE <<>>)
             \o positional_strings(Tail(entries))

get_args_from_children(pane) ==
    IF pane.children = None THEN <<>>
    ELSE LET kids == unwrap(pane.children) IN
         IF ArgsIdx(kids) = {} THEN <<>>
         ELSE positional_strings(kids[Min(ArgsIdx(kids))].entries)

\* (a slip: the entry of that name is dropped and the new one pushed last)
set_entry_string_value_pushed(node, name, value) ==
    [node EXCEPT !.entries =
        Append(SelectSeq(@, LAMBDA e : e.name # Some(name)),
               KdlEntry_new_prop(name, KdlString(value)))]

\* node.insert(name, value): the first entry of that name is replaced where it
\* stands; with none, the entry is pushed.
set_entry_string_value(node, name, value) ==
    LET idx == {i \in 1..Len(node.entries) : node.entries[i].name = Some(name)}
        entry == KdlEntry_new_prop(name, KdlString(value))
    IN  IF idx = {} THEN [node EXCEPT !.entries = Append(@, entry)]
        ELSE [node EXCEPT !.entries[Min(idx)] = entry]

\* (a slip: the new args node always goes first, the old one is dropped)
set_args_in_children_at_front(pane, args) ==
    [pane EXCEPT !.children =
        Some(<<[KdlNode_new("args") EXCEPT
                   !.entries = [i \in 1..Len(args) |-> KdlEntry_new(KdlString(args[i]))]]>>
             \o SelectSeq(IF pane.children = None THEN <<>> ELSE unwrap(pane.children),
                          LAMBDA n : n.name # "args"))]

set_args_in_children(pane, args) ==
    LET kids == IF pane.children = None THEN <<>> ELSE unwrap(pane.children)
        found_idx == IF ArgsIdx(kids) = {} THEN None ELSE Some(Min(ArgsIdx(kids)))
        leading_text == IF is_some(found_idx) THEN kids[unwrap(found_idx)].leading ELSE None
        leading == IF is_some(leading_text) THEN leading_text
                   ELSE IF kids = <<>> THEN None ELSE kids[1].leading
        args_node == [KdlNode_new("args") EXCEPT
                         !.leading = leading,
                         !.entries = [i \in 1..Len(args) |-> KdlEntry_new(KdlString(args[i]))]]
    IN  IF is_some(found_idx)
        THEN [pane EXCEPT !.children = Some([kids EXCEPT ![unwrap(found_idx)] = args_node])]
        ELSE IF kids = <<>>
        THEN [pane EXCEPT !.children = Some(<<args_node>>)]
        ELSE LET first_node == kids[1]
                 trimmed == IF is_some(first_node.leading)
                            THEN [first_node EXCEPT
                                     !.leading = Some(trim_start_matches(unwrap(@), "\n"))]
                            ELSE first_node
             IN  [pane EXCEPT !.children = Some(<<args_node, trimmed>> \o Tail(kids))]

\* (a slip: the args node is kept)
remove_args_from_children_kept(pane) == pane

remove_args_from_children(pane) ==
    IF pane.children = None THEN pane
    ELSE [pane EXCEPT !.children =
             Some(SelectSeq(unwrap(@), LAMBDA n : n.name # "args"))]

----------------------------------------------------------------------------
(* src/src/kdl.rs: the Pane Processor and the Tree Walker.  Each operator   *)
(* returns the node(s) as mutated and the Changes it pushed, in order.      *)

\* format!("{} {}", original_command, existing_args.join(" ")), or the command
\* alone when there are no args
full_command(original_command, existing_args) ==
    IF existing_args = <<>> THEN original_command
    ELSE original_command \o space \o join(existing_args, space)

\* (a slip: no idempotence guard)
already_direnv_wrapped_never(original_command) == FALSE

\* if original_command == "direnv" { return; }
already_direnv_wrapped(original_command) == original_command = direnv

\* (a slip: the existing args are not carried over)
direnv_new_args_without_existing(cmd_name, nvim_file_args, existing_args) ==
    <<exec, dot, cmd_name>> \o nvim_file_args

\* vec!["exec", ".", cmd_name], extended by the file args or else the existing args
direnv_new_args(cmd_name, nvim_file_args, existing_args) ==
    <<exec, dot, cmd_name>> \o
        (IF nvim_file_args # <<>> THEN nvim_file_args
         ELSE IF existing_args # <<>> THEN existing_args
         ELSE <<>>)

\* cmd_name: "nvim" for a simplified editor command, else the command as it is
direnv_cmd_name(simplified_cmd) ==
    IF starts_with(simplified_cmd, nvim_sp) THEN nvim
    ELSE IF simplified_cmd = nvim THEN nvim
    ELSE simplified_cmd

\* nvim_file_args: the words after "nvim " of a simplified editor command
direnv_file_args(simplified_cmd) ==
    IF starts_with(simplified_cmd, nvim_sp)
    THEN split_whitespace(unwrap_or(strip_prefix(simplified_cmd, nvim_sp), <<>>))
    ELSE <<>>

\* set_entry_string_value(pane, "command", "direnv"); set_args_in_children(pane,
\* &new_args); changes.push(...)
direnv_wrap(pane, original_desc, new_args) ==
    [node |-> set_args_in_children(
                  set_entry_string_value(pane, "command", direnv), new_args),
     ch |-> <<Changes(original_desc, direnv_sp \o join(new_args, space))>>]

apply_direnv_transform(pane, original_command, existing_args) ==
    IF already_direnv_wrapped(original_command) THEN [node |-> pane, ch |-> <<>>]
    ELSE IF contains(original_command, nvim)
    THEN direnv_wrap(pane, full_command(original_command, existing_args),
             direnv_new_args(
                 direnv_cmd_name(format_nvim(full_command(original_command, existing_args))),
                 direnv_file_args(format_nvim(full_command(original_command, existing_args))),
                 existing_args))
    ELSE direnv_wrap(pane, full_command(original_command, existing_args),
             direnv_new_args(original_command, <<>>, existing_args))

\* From `let files` on: the args child is set to the files, or removed.
nvim_set_files(renamed, files) ==
    IF files # <<>> THEN set_args_in_children(renamed, files)
    ELSE remove_args_from_children(renamed)

\* From `if simplified == full_cmd` on.
nvim_simplified(pane, full_cmd, formatted_cmd) ==
    IF formatted_cmd = full_cmd THEN [node |-> pane, ch |-> <<>>]
    ELSE [node |-> nvim_set_files(
                       set_entry_string_value(pane, "command", nvim),
                       split_whitespace(unwrap_or(strip_prefix(formatted_cmd, nvim_sp), <<>>))),
          ch |-> <<Changes(full_cmd, formatted_cmd)>>]

apply_nvim_simplification(pane, original_command, existing_args) ==
    nvim_simplified(pane, full_command(original_command, existing_args),
                    format_nvim(full_command(original_command, existing_args)))

\* From `let existing_args` on, for a pane that has a string command.
process_command(pane, cmd, existing_args, is_dr_tab) ==
    IF is_dr_tab THEN apply_direnv_transform(pane, cmd, existing_args)
    ELSE IF contains(cmd, nvim) THEN apply_nvim_simplification(pane, cmd, existing_args)
    ELSE [node |-> pane, ch |-> <<>>]

process_single_pane(pane, is_dr_tab) ==
    IF get_entry_string_value(pane, "command") = None THEN [node |-> pane, ch |-> <<>>]
    ELSE process_command(pane, unwrap(get_entry_string_value(pane, "command")),
                         get_args_from_children(pane), is_dr_tab)

\* The node with the children a recursive call has mutated, and that call's Changes.
put_children(node, r) == [node |-> [node EXCEPT !.children = Some(r.nodes)], ch |-> r.ch]

\* The Changes pushed before a call, before that call's.
pushed_before(ch, r) == [node |-> r.node, ch |-> ch \o r.ch]

\* One step of a `for` loop over sibling nodes: this node, then the rest.
then_rest(one, rest) == [nodes |-> <<one.node>> \o rest.nodes, ch |-> one.ch \o rest.ch]

\* process_panes_in_node, and its loop over the children from the left.
RECURSIVE process_panes_in_node(_, _), process_panes_in_children(_, _)
process_panes_in_children(kids, is_dr_tab) ==
    IF kids = <<>> THEN [nodes |-> <<>>, ch |-> <<>>]
    ELSE then_rest(
             IF Head(kids).name = "pane"
             THEN process_panes_in_node(process_single_pane(Head(kids), is_dr_tab), is_dr_tab)
             ELSE [node |-> Head(kids), ch |-> <<>>],
             process_panes_in_children(Tail(kids), is_dr_tab))

\* `a` is the node with the Changes pushed for it so far.
process_panes_in_node(a, is_dr_tab) ==
    IF a.node.children = None THEN a
    ELSE pushed_before(a.ch,
             put_children(a.node,
                 process_panes_in_children(unwrap(a.node.children), is_dr_tab)))

\* process_nodes_recursive, and what it does after process_single_pane on a
\* pane outside any tab.
RECURSIVE process_nodes_recursive(_), process_nodes_below(_)
process_nodes_below(a) ==
    IF a.node.children = None THEN a
    ELSE pushed_before(a.ch,
             put_children(a.node, process_nodes_recursive(unwrap(a.node.children))))

process_nodes_recursive(nodes) ==
    IF nodes = <<>> THEN [nodes |-> <<>>, ch |-> <<>>]
    ELSE then_rest(
             IF Head(nodes).name = "tab"
             THEN process_panes_in_node([node |-> Head(nodes), ch |-> <<>>],
                                        is_direnv_tab(Head(nodes)))
             ELSE IF Head(nodes).name = "pane"
             THEN process_nodes_below(process_single_pane(Head(nodes), FALSE))
             ELSE process_nodes_below([node |-> Head(nodes), ch |-> <<>>]),
             process_nodes_recursive(Tail(nodes)))

\* The text and the Changes process_kdl_content returns for the walked document.
returned(r) == [modified |-> to_string(r.nodes, 0), changes |-> r.ch]

\* A text that does not parse holds a stray closing brace, written as a node
\* named "}" where it stands.
stray == "}"

\* content.parse() is Ok
RECURSIVE parse_is_ok(_)
parse_is_ok(text) ==
    \A i \in 1..Len(text) :
        /\ text[i].name # stray
        /\ text[i].children = None \/ parse_is_ok(unwrap(text[i].children))

\* (a slip: the nodes of a text that does not parse are processed all the same)
parse_failed_processed(text) == returned(process_nodes_recursive(parse(text)))

\* Err(_) => return (content.to_string(), Vec::new())
parse_failed(text) == [modified |-> text, changes |-> <<>>]

\* process_kdl_content(content) -> (String, Vec<Changes>)
process_kdl_content(text) ==
    IF parse_is_ok(text) THEN returned(process_nodes_recursive(parse(text)))
    ELSE parse_failed(text)

----------------------------------------------------------------------------
(* src/src/kdl.rs: scan_layouts, scan_dir_recursive and process_kdl_file.   *)
(* A directory is the sequence of its entries in read_dir order; an entry   *)
(* is a file [is_dir |-> FALSE, name, readable, content] or a directory     *)
(* [is_dir |-> TRUE, name, entries].  A path is the sequence of the indices *)
(* that lead to a file.                                                     *)

layout_name == "session-layout.kdl"

\* The paths scan_dir_recursive calls process_kdl_file on, in call order, for
\* the entries from index i on of the directory at path dir.
RECURSIVE scan_dir_recursive(_, _, _)
scan_dir_recursive(entries, dir, i) ==
    IF i > Len(entries) THEN <<>>
    ELSE (IF entries[i].is_dir
          THEN scan_dir_recursive(entries[i].entries, Append(dir, i), 1)
          ELSE IF entries[i].name = layout_name THEN <<Append(dir, i)>>
          ELSE <<>>)
         \o scan_dir_recursive(entries, dir, i + 1)

\* The file at a path.
RECURSIVE file_at(_, _)
file_at(entries, path) ==
    IF Len(path) = 1 THEN entries[path[1]]
    ELSE file_at(entries[path[1]].entries, Tail(path))

\* std::fs::write(file_path, &modified)
RECURSIVE fs_write(_, _, _)
fs_write(entries, path, text) ==
    IF Len(path) = 1 THEN [entries EXCEPT ![path[1]].content = text]
    ELSE [entries EXCEPT ![path[1]].entries = fs_write(@, Tail(path), text)]

\* for change in &mut file_changes { change.file_path = file_path.to_string() }
with_file_path(file_changes, file_path) ==
    [i \in 1..Len(file_changes) |-> [file_changes[i] EXCEPT !.file_path = file_path]]

\* (a slip: the dry run writes too)
writes_file_in_dry_run(file_changes, dry) == file_changes # <<>>

\* if !file_changes.is_empty() { ... if !dry_run && let Err(e) = std::fs::write(..) }
writes_file(file_changes, dry) == file_changes # <<>> /\ ~dry

\* if !dry_run && !changes.is_empty() && let Ok(mut log_file) = ...
appends_log(all_changes, dry) == ~dry /\ all_changes # <<>>

\* "Processed {} files", changes.len()
logged_count(all_changes) == Len(all_changes)

----------------------------------------------------------------------------
(* Inputs of the Command Simplifier *)

MaxTokens == 3

FirstTokens ==
    { nvim,
      <<"/", "b", "/">> \o nvim,
      nvim_exe,
      <<"v", "i">>,
      <<>> }

ArgTokens ==
    { <<"a">>,
      <<"b", ".", "r", "s">>,
      <<"-", "u">>,
      <<"x", "=", "1">>,
      <<"c", ".">> \o nvim,
      <<>>,
      <<NUL>> }

TokenLists == UNION { [1..n -> ArgTokens] : n \in 0..MaxTokens }

\* No scan is running: nothing on disk, nothing pending, nothing logged.
NoScan ==
    /\ dry_run = FALSE
    /\ disk = <<>>
    /\ pending = <<>>
    /\ scanned = <<>>
    /\ written = {}
    /\ log = <<>>
    /\ scanning = FALSE

InitFmt ==
    /\ content = <<>>
    /\ prev = <<>>
    /\ changes = <<>>
    /\ passes = 0
    /\ \E f \in FirstTokens : \E ts \in TokenLists : command = join(<<f>> \o ts, space)
    /\ formatted = None
    /\ printed = None
    /\ is_filename = None
    /\ NoScan

\* apply_nvim_simplification: let formatted = format_nvim(&full_cmd)
FormatCommand ==
    /\ formatted = None
    /\ formatted' = Some(format_nvim(command))
    /\ UNCHANGED <<kdl_vars, command, printed, is_filename, scan_vars>>

\* main: let formatted = format_nvim(&command); println!("{formatted}")
Main ==
    /\ printed = None
    /\ printed' = Some(main_format_nvim(command))
    /\ UNCHANGED <<kdl_vars, command, formatted, is_filename, scan_vars>>

NextFmt == FormatCommand \/ Main

SpecFmt == InitFmt /\ [][NextFmt]_vars

----------------------------------------------------------------------------
(* Session-layout files given to the transform *)

MaxPasses == 2
MaxDepth == 2

LeadNL == <<"\n", " ">>
LeadSp == <<" ">>

Text(name, entries, children, leading) ==
    [name |-> name, entries |-> entries, children |-> children, leading |-> leading]

Prop(n, s) == KdlEntry_new_prop(n, KdlString(s))
Positional(strs) == [i \in 1..Len(strs) |-> KdlEntry_new(KdlString(strs[i]))]

bin_nvim == <<"/", "b", "/">> \o nvim
nvim_q == nvim \o <<"-", "q">>
sh == <<"s", "h">>
file_a == <<"a">>
file_b == <<"b", ".", "r", "s">>
flag_u == <<"-", "u">>
flag_cmd == <<"-", "-", "c", "m", "d">>
lua == <<"l", "u", "a", " ", "x", "=", "1">>

CommandStrings == {nvim, bin_nvim, nvim_q, nvim_exe, direnv, sh}

\* The entries of a pane: cwd, then command (a string, an integer, or none), then size.
PaneEntries ==
    { <<Prop("cwd", <<"p">>), Prop("command", c), Prop("size", <<"5">>)>> : c \in CommandStrings }
    \cup { <<Prop("cwd", <<"p">>), Prop("size", <<"5">>)>>,
           <<Prop("cwd", <<"p">>), KdlEntry_new_prop("command", KdlInteger(<<"1">>)),
             Prop("size", <<"5">>)>> }

\* The entries of an args node.
ArgsEntries ==
    { Positional(<<>>),
      Positional(<<file_a>>),
      Positional(<<flag_u>>),
      Positional(<<flag_u, file_a>>),
      Positional(<<flag_cmd, lua, file_a, file_b>>),
      Positional(<<<<"a", " ", "b">>>>),
      Positional(<<<<"a", "\t", "b">>>>),
      Positional(<<<<>>, file_a>>),
      Positional(<<<<"c", ".">> \o nvim>>),
      Positional(<<exec, dot, nvim, file_a>>),
      <<Prop("k", <<"v">>)>> \o Positional(<<file_a>>),
      <<KdlEntry_new(KdlInteger(<<"1">>))>> \o Positional(<<file_a>>) }

start_suspended(leading) ==
    Text("start_suspended", <<KdlEntry_new([kind |-> "bool", s |-> <<"t">>])>>, None, leading)

\* The child block of a pane: none, empty, and an args node before, after or
\* without another child.
PaneChildren ==
    { None, Some(<<>>), Some(<<start_suspended(LeadNL)>>), Some(<<start_suspended(LeadSp)>>) }
    \cup { Some(<<Text("args", a, None, LeadNL)>>) : a \in ArgsEntries }
    \cup { Some(<<Text("args", a, None, LeadNL), start_suspended(LeadSp)>>) : a \in ArgsEntries }
    \cup { Some(<<start_suspended(LeadNL), Text("args", a, None, LeadSp)>>) : a \in ArgsEntries }

Panes == { Text("pane", e, k, LeadNL) : e \in PaneEntries, k \in PaneChildren }

\* A few panes, for the documents that hold two of them or vary the nesting.
FewPanes ==
    { Text("pane", <<Prop("command", sh)>>, None, LeadNL),
      Text("pane", <<Prop("command", direnv)>>,
           Some(<<Text("args", Positional(<<exec, dot, nvim, file_a>>), None, LeadNL)>>), LeadNL),
      Text("pane", <<Prop("command", bin_nvim), Prop("cwd", <<"p">>)>>,
           Some(<<Text("args", Positional(<<flag_cmd, lua, file_a, file_b>>), None, LeadNL),
                  start_suspended(LeadSp)>>), LeadNL),
      Text("pane", <<Prop("command", nvim)>>, Some(<<start_suspended(LeadNL)>>), LeadNL),
      Text("pane", <<Prop("command", nvim_q)>>,
           Some(<<Text("args", Positional(<<file_a>>), None, LeadNL)>>), LeadNL) }

\* The entries of a tab.
TabEntries ==
    { <<Prop("name", <<"d", "r", " ", "x">>), Prop("focus", <<"t">>)>>,
      <<Prop("name", <<"x">>)>>,
      <<Prop("name", <<"d", "r">>)>>,
      <<Prop("name", <<"d", "r", "x">>)>>,
      <<Prop("name", <<"D", "r", " ", "x">>)>>,
      <<Prop("focus", <<"t">>)>>,
      <<KdlEntry_new_prop("name", KdlInteger(<<"1">>))>>,
      <<KdlEntry_new_prop("name", KdlInteger(<<"1">>)), Prop("name", <<"d", "r", " ", "x">>)>> }

DrOrPlain == { <<Prop("name", <<"d", "r", " ", "x">>), Prop("focus", <<"t">>)>>,
               <<Prop("name", <<"x">>)>> }

Tab(e, kids) == Text("tab", e, Some(kids), LeadNL)
Wrapper(name, kids) == Text(name, <<>>, Some(kids), LeadNL)
plugin_pane ==
    Text("pane", <<Prop("size", <<"1">>)>>,
         Some(<<Text("plugin", <<Prop("location", <<"z">>)>>, None, LeadNL)>>), LeadNL)

\* kids inside d split containers (panes with no command).
RECURSIVE Split(_, _)
Split(kids, d) ==
    IF d = 0 THEN kids
    ELSE <<Text("pane", <<Prop("split_direction", <<"v">>)>>, Some(Split(kids, d - 1)), LeadNL)>>

Docs ==
    \* a pane outside any tab, at the top level or inside split containers
    { Split(<<p>>, d) : p \in Panes, d \in 0..1 }
    \cup { Split(<<p, q>>, d) : p \in FewPanes, q \in FewPanes, d \in 0..MaxDepth }
    \* a pane under wrappers outside any tab
    \cup { <<Wrapper("layout", <<Wrapper("floating_panes", <<p>>)>>)>> : p \in FewPanes }
    \* layout { tab { pane } }
    \cup { <<Wrapper("layout", <<Tab(e, <<p>>)>>)>> : e \in DrOrPlain, p \in Panes }
    \cup { <<Tab(e, <<p>>)>> : e \in TabEntries, p \in FewPanes }
    \* tab { split containers { pane pane } }
    \cup { <<Tab(e, <<plugin_pane>> \o Split(<<p, q>>, d))>> :
               e \in DrOrPlain, p \in FewPanes, q \in FewPanes, d \in 1..MaxDepth }
    \* tab { floating_panes { pane } } and tab { pane { floating_panes { pane } } }
    \cup { <<Tab(e, <<plugin_pane, Wrapper("floating_panes", <<p>>)>>)>> :
               e \in DrOrPlain, p \in FewPanes }
    \cup { <<Tab(e, Split(<<Wrapper("floating_panes", <<p>>)>>, 1))>> :
               e \in DrOrPlain, p \in FewPanes }
    \* two sibling tabs
    \cup { <<Tab(e1, <<p>>), Tab(e2, <<q>>)>> :
               e1 \in TabEntries, e2 \in DrOrPlain, p \in FewPanes, q \in FewPanes }

Init ==
    /\ content \in Docs
    /\ prev = <<>>
    /\ changes = <<>>
    /\ passes = 0
    /\ command = <<>>
    /\ formatted = None
    /\ printed = None
    /\ is_filename = None
    /\ NoScan

\* One pass of process_kdl_content over the file's text; the text it returns
\* is the text the next pass is given.
ProcessContent ==
    /\ passes < MaxPasses
    /\ \E r \in {process_kdl_content(content)} :
           /\ content' = r.modified
           /\ changes' = r.changes
    /\ prev' = content
    /\ passes' = passes + 1
    /\ UNCHANGED <<fmt_vars, scan_vars>>

Next == ProcessContent

Spec == Init /\ [][Next]_vars

----------------------------------------------------------------------------
(* Inputs of the Filename Classifier: every token of up to MaxChars          *)
(* characters over an alphabet that holds the NUL byte, the forbidden        *)
(* characters and a few others.                                              *)

MaxChars == 2

Alphabet == {"a", ".", "/", "-", NUL, "<", ">", "\"", ":", "|", "?", ";", "="}

ClassifierTokens == UNION { [1..n -> Alphabet] : n \in 0..MaxChars }

InitClassify ==
    /\ content = <<>>
    /\ prev = <<>>
    /\ changes = <<>>
    /\ passes = 0
    /\ command \in ClassifierTokens
    /\ formatted = None
    /\ printed = None
    /\ is_filename = None
    /\ NoScan

\* could_be_filename(part)
CouldBeFilename ==
    /\ is_filename = None
    /\ is_filename' = Some(could_be_filename(command))
    /\ UNCHANGED <<kdl_vars, command, formatted, printed, scan_vars>>

NextClassify == CouldBeFilename

SpecClassify == InitClassify /\ [][NextClassify]_vars

\* The command hook and the layout transform side by side: the simplifier on
\* a command, and passes of the transform over a document.
InitBoth == InitFmt \/ Init

NextBoth == NextFmt \/ Next

SpecBoth == InitBoth /\ [][NextBoth]_vars

----------------------------------------------------------------------------
(* Inputs of scan_layouts: a directory and the dry_run flag *)

MaxFiles == 2

plain_tab == <<Prop("name", <<"x">>)>>
dr_tab == <<Prop("name", <<"d", "r", " ", "x">>)>>

nvim_pane ==
    Text("pane", <<Prop("command", bin_nvim)>>,
         Some(<<Text("args", Positional(<<flag_u, file_a>>), None, LeadNL)>>), LeadNL)
sh_pane == Text("pane", <<Prop("command", sh)>>, None, LeadNL)
bare_nvim_pane == Text("pane", <<Prop("command", nvim)>>, None, LeadNL)

\* The texts of the files: two panes to rewrite, one pane to rewrite, nothing
\* to rewrite, a pane with the bare command nvim, and a text that does not parse.
two_changes == <<Wrapper("layout", <<Tab(plain_tab, <<nvim_pane, nvim_pane>>)>>)>>
one_change == <<Wrapper("layout", <<Tab(dr_tab, <<sh_pane>>)>>)>>
no_change == <<Wrapper("layout", <<Tab(plain_tab, <<sh_pane>>)>>)>>
bare_nvim == <<Wrapper("layout", <<Tab(plain_tab, <<bare_nvim_pane>>)>>)>>
unparseable == <<Wrapper("layout", <<Tab(plain_tab, <<nvim_pane>>)>>), Text(stray, <<>>, None, LeadNL)>>

FileContents == {two_changes, one_change, no_change, bare_nvim, unparseable}

File(name, readable, text) ==
    [is_dir |-> FALSE, name |-> name, readable |-> readable, content |-> text]
Dir(name, entries) == [is_dir |-> TRUE, name |-> name, entries |-> entries]

Files ==
    { File(layout_name, TRUE, c) : c \in FileContents }
    \cup { File(layout_name, FALSE, one_change), File("notes.kdl", TRUE, one_change) }

DirEntries == Files \cup { Dir("s", <<f>>) : f \in {File(layout_name, TRUE, two_changes),
                                                   File(layout_name, TRUE, no_change)} }

Directories == UNION { [1..n -> DirEntries] : n \in 0..MaxFiles }

\* scan_layouts up to its call of scan_dir_recursive.
InitScan ==
    /\ content = <<>>
    /\ prev = <<>>
    /\ changes = <<>>
    /\ passes = 0
    /\ command = <<>>
    /\ formatted = None
    /\ printed = None
    /\ is_filename = None
    /\ dry_run \in BOOLEAN
    /\ disk \in Directories
    /\ pending = scan_dir_recursive(disk, <<>>, 1)
    /\ scanned = <<>>
    /\ written = {}
    /\ log = <<>>
    /\ scanning = TRUE

\* process_kdl_file on the next session-layout file.
ProcessKdlFile ==
    /\ scanning
    /\ pending # <<>>
    /\ pending' = Tail(pending)
    /\ IF ~file_at(disk, Head(pending)).readable
       THEN UNCHANGED <<disk, scanned, written>>
       ELSE \E r \in {process_kdl_content(file_at(disk, Head(pending)).content)} :
                /\ scanned' = scanned \o with_file_path(r.changes, Head(pending))
                /\ IF writes_file(r.changes, dry_run)
                   THEN /\ disk' = fs_write(disk, Head(pending), r.modified)
                        /\ written' = written \cup {Head(pending)}
                   ELSE UNCHANGED <<disk, written>>
    /\ UNCHANGED <<kdl_vars, fmt_vars, dry_run, log, scanning>>

\* scan_layouts after scan_dir_recursive has returned: the log line.
WriteLog ==
    /\ scanning
    /\ pending = <<>>
    /\ scanning' = FALSE
    /\ log' = IF appends_log(scanned, dry_run) THEN Append(log, logged_count(scanned))
              ELSE log
    /\ UNCHANGED <<kdl_vars, fmt_vars, dry_run, disk, pending, scanned, written>>

NextScan == ProcessKdlFile \/ WriteLog

SpecScan == InitScan /\ [][NextScan]_vars

----------------------------------------------------------------------------
(* The Command Simplifier's claims, over SpecFmt *)

\* The tokens of `command`, the first one apart.
Tokens == split(command, " ")
Trailing(k) == SubSeq(Tokens, k + 2, Len(Tokens))

\* t(k+1)..tn all pass the Filename Classifier, none starts with '-', and tk
\* starts with '-' or fails the Classifier (or k = 0).
IsTrailingRun(k) ==
    /\ \A j \in (k + 2)..Len(Tokens) :
           could_be_filename(Tokens[j]) /\ ~starts_with(Tokens[j], dash)
    /\ \/ k = 0
       \/ starts_with(Tokens[k + 1], dash)
       \/ ~could_be_filename(Tokens[k + 1])

\* C2: for a command whose first token ends in 'nvim', followed by t1..tn with
\* a trailing run t(k+1)..tn (n > k) of filename-like, non-flag tokens, the
\* simplifier returns "nvim " followed by t(k+1)..tn joined by single spaces,
\* whatever the tokens' spelling.
C2_TrailingRun ==
    (is_some(formatted) /\ ends_with(Tokens[1], nvim)) =>
        \A k \in 0..(Len(Tokens) - 2) :
            IsTrailingRun(k) => unwrap(formatted) = nvim_sp \o join(Trailing(k), space)

\* C3: for an editor command whose trailing filename list is empty (no
\* arguments, or the last token is a flag or fails the Classifier) the
\* simplifier returns exactly "nvim", with no trailing space.
C3_EmptyListGivesNvim ==
    ( /\ is_some(formatted)
      /\ ends_with(Tokens[1], nvim) \/ ends_with(Tokens[1], nvim_exe)
      /\ \/ Len(Tokens) = 1
         \/ starts_with(Tokens[Len(Tokens)], dash)
         \/ ~could_be_filename(Tokens[Len(Tokens)]) )
    => unwrap(formatted) = nvim

----------------------------------------------------------------------------
(* Reading a document for the layout transform's claims, over Spec.         *)
(* The transform inserts, replaces and removes only nodes named "args", so  *)
(* a node is addressed by its path through the children that are not named *)
(* "args": the same path names the same node before and after a pass.       *)

NotArgs(nodes) == SelectSeq(nodes, LAMBDA n : n.name # "args")
OnlyArgs(nodes) == SelectSeq(nodes, LAMBDA n : n.name = "args")
ChildrenOf(n) == IF n.children = None THEN <<>> ELSE n.children[1]

RECURSIVE PathsOf(_)
PathsOf(nodes) ==
    LET sk == NotArgs(nodes) IN
    UNION { {<<i>>} \cup { <<i>> \o q : q \in PathsOf(ChildrenOf(sk[i])) } : i \in 1..Len(sk) }

NoNode == [name |-> "", entries |-> <<>>, children |-> None, leading |-> <<>>]

RECURSIVE NodeAt(_, _)
NodeAt(nodes, p) ==
    LET sk == NotArgs(nodes) IN
    IF p = <<>> \/ p[1] > Len(sk) THEN NoNode
    ELSE IF Len(p) = 1 THEN sk[p[1]]
    ELSE NodeAt(ChildrenOf(sk[p[1]]), Tail(p))

Prefix(p, k) == SubSeq(p, 1, k)
PanePaths(nodes) == { p \in PathsOf(nodes) : NodeAt(nodes, p).name = "pane" }

\* The value of the node's first entry named `name`, when it is a string.
StringEntry(n, name) ==
    LET hits == SelectSeq(n.entries, LAMBDA e : e.name = <<name>>) IN
    IF hits # <<>> /\ hits[1].value.kind = "string" THEN <<hits[1].value.s>> ELSE <<>>
HasCommand(n) == StringEntry(n, "command") # <<>>
CommandOf(n) == StringEntry(n, "command")[1]

\* The positional string values of the node's first args child.
HasArgsChild(n) == OnlyArgs(ChildrenOf(n)) # <<>>
ArgsOf(n) ==
    IF ~HasArgsChild(n) THEN <<>>
    ELSE LET es == SelectSeq(OnlyArgs(ChildrenOf(n))[1].entries,
                             LAMBDA e : e.name = <<>> /\ e.value.kind = "string")
         IN  [i \in 1..Len(es) |-> es[i].value.s]
\* The command joined with the args by single spaces.
FullOf(n) == join(<<CommandOf(n)>> \o ArgsOf(n), space)

\* A tab whose name entry is a string starting with 'd', 'r', ' '.
IsDrTab(n) ==
    /\ n.name = "tab"
    /\ \E i \in 1..Len(n.entries) :
           LET e == n.entries[i] IN
           /\ e.name = <<"name">> /\ e.value.kind = "string"
           /\ Len(e.value.s) >= 3
           /\ e.value.s[1] = "d" /\ e.value.s[2] = "r" /\ e.value.s[3] = " "

TabsAbove(nodes, p) == { k \in 1..(Len(p) - 1) : NodeAt(nodes, Prefix(p, k)).name = "tab" }
InDrTab(nodes, p) == \E k \in TabsAbove(nodes, p) : IsDrTab(NodeAt(nodes, Prefix(p, k)))

\* The panes the Tree Walker hands to the Pane Processor: every pane outside
\* a tab, and inside a tab the panes whose ancestors below the tab are panes.
Handed(nodes, p) ==
    /\ NodeAt(nodes, p).name = "pane"
    /\ \A k \in TabsAbove(nodes, p) :
           \A j \in (k + 1)..(Len(p) - 1) : NodeAt(nodes, Prefix(p, j)).name = "pane"
\* ... with the flag of the enclosing tab (false outside a tab).
HandedDr(nodes, p) == Handed(nodes, p) /\ InDrTab(nodes, p)
HandedPlain(nodes, p) == Handed(nodes, p) /\ ~InDrTab(nodes, p)

----------------------------------------------------------------------------
(* The Tree Walker's claims *)

\* C4: after the transform every descendant pane of a 'dr ' tab that has a
\* string command has command="direnv", at any depth and also under wrapper
\* nodes that are not panes.
C4_EveryPaneOfDrTabWrapped ==
    passes >= 1 =>
        \A p \in PanePaths(prev) :
            (InDrTab(prev, p) /\ HasCommand(NodeAt(prev, p)))
                => StringEntry(NodeAt(content, p), "command") = <<direnv>>

\* C5: a pass rewrites a pane's command to "direnv" only if the pane lies
\* inside a tab whose name is a string starting with "dr "; any other pane
\* keeps its command or has it simplified to "nvim".
C5_DirenvOnlyInDrTab ==
    passes >= 1 =>
        \A p \in PanePaths(prev) :
            LET before == StringEntry(NodeAt(prev, p), "command")
                after == StringEntry(NodeAt(content, p), "command")
            IN  /\ (after = <<direnv>> /\ before # <<direnv>>) => InDrTab(prev, p)
                /\ ~InDrTab(prev, p) => after \in {before, <<nvim>>}

\* C5's case: a pass has wrapped the pane of a 'dr ' tab and left alone the
\* command pane of a later sibling tab that is not a 'dr ' tab.
C5_Witness ==
    /\ passes = 1
    /\ Len(prev) = 2
    /\ IsDrTab(prev[1]) /\ prev[2].name = "tab" /\ ~IsDrTab(prev[2])
    /\ CommandOf(NodeAt(prev, <<1, 1>>)) = sh
    /\ CommandOf(NodeAt(content, <<1, 1>>)) = direnv
    /\ CommandOf(NodeAt(prev, <<2, 1>>)) = sh
    /\ CommandOf(NodeAt(content, <<2, 1>>)) = sh

----------------------------------------------------------------------------
(* The Pane Processor's claims *)

\* The entries of the node's first args child.
ArgsEntriesOf(n) == OnlyArgs(ChildrenOf(n))[1].entries

\* The words the simplifier put after "nvim ": split at single spaces (its own
\* tokens), or at any whitespace.
AfterNvim(out) == IF starts_with(out, nvim_sp) THEN SubSeq(out, 6, Len(out)) ELSE <<>>
ExtractedFiles(out) == IF AfterNvim(out) = <<>> THEN <<>> ELSE split(AfterNvim(out), " ")
ExtractedWords(out) == split_whitespace(AfterNvim(out))

\* The panes a pass rewrites, and so records a Change for.
Rewrites(nodes, p) ==
    LET n == NodeAt(nodes, p) IN
    /\ HasCommand(n)
    /\ \/ HandedDr(nodes, p) /\ CommandOf(n) # direnv
       \/ /\ HandedPlain(nodes, p)
          /\ contains(CommandOf(n), nvim)
          /\ format_nvim(FullOf(n)) # FullOf(n)

\* q comes before p in document order (a node before its descendants).
PathBefore(q, p) ==
    /\ q # p
    /\ \/ Len(q) < Len(p) /\ Prefix(p, Len(q)) = q
       \/ \E i \in 1..Len(q) :
              i <= Len(p) /\ Prefix(q, i - 1) = Prefix(p, i - 1) /\ q[i] < p[i]

\* The pass recorded one Change per rewritten pane, in document order, and the
\* one of pane p is rec.
OneChange(p, rec) ==
    LET rewritten == { q \in PanePaths(prev) : Rewrites(prev, q) }
        rank == 1 + Cardinality({ q \in rewritten : PathBefore(q, p) })
    IN  /\ Len(changes) = Cardinality(rewritten)
        /\ p \in rewritten
        /\ changes[rank] = rec

\* C1: a pass over the text an earlier pass returned records no Change and
\* returns that text unchanged.
C1_Idempotent == passes >= 2 => (changes = <<>> /\ content = prev)

\* C6: in a 'dr ' tab, a pane whose command contains "nvim" (and is not
\* "direnv") gets the args "exec" "." "nvim" followed by the filenames the
\* simplifier extracted from command + args or, with none, by the original
\* args; the third arg is always "nvim".
C6_DirenvNvimArgs ==
    passes >= 1 =>
        \A p \in PanePaths(prev) :
            LET before == NodeAt(prev, p)
                after == NodeAt(content, p)
            IN  ( /\ HandedDr(prev, p) /\ HasCommand(before)
                  /\ contains(CommandOf(before), nvim) /\ CommandOf(before) # direnv )
                =>
                LET files == ExtractedWords(format_nvim(FullOf(before)))
                    new == ArgsOf(after)
                IN  /\ Len(new) >= 3 /\ new[3] = nvim
                    /\ new = <<exec, dot, nvim>> \o
                                 (IF files # <<>> THEN files ELSE ArgsOf(before))

NvimSimplified(files(_)) ==
    passes >= 1 =>
        \A p \in PanePaths(prev) :
            LET before == NodeAt(prev, p)
                after == NodeAt(content, p)
            IN  ( /\ HandedPlain(prev, p) /\ HasCommand(before)
                  /\ contains(CommandOf(before), nvim)
                  /\ format_nvim(FullOf(before)) # FullOf(before) )
                =>
                LET out == format_nvim(FullOf(before)) IN
                /\ StringEntry(after, "command") = <<nvim>>
                /\ HasArgsChild(after) <=> files(out) # <<>>
                /\ HasArgsChild(after) => ArgsEntriesOf(after) = Positional(files(out))
                /\ OneChange(p, Changes(FullOf(before), out))

C10_DirenvPaneUntouched ==
    passes >= 1 =>
        \A p \in PanePaths(prev) :
            LET before == NodeAt(prev, p)
                after == NodeAt(content, p)
            IN  (InDrTab(prev, p) /\ StringEntry(before, "command") = <<direnv>>)
                =>
                /\ after.entries = before.entries
                /\ after.leading = before.leading
                /\ after.children = before.children
                /\ \A i \in 1..Len(changes) : changes[i].original_command # FullOf(before)

\* C10's case: a pass ran over a 'dr ' tab that holds a pane already wrapped
\* (command "direnv", args "exec" "." "nvim" "a") next to a pane it rewrote.
C10_Witness ==
    /\ passes = 1
    /\ changes # <<>>
    /\ \E p \in PanePaths(prev) :
           /\ HandedDr(prev, p)
           /\ StringEntry(NodeAt(prev, p), "command") = <<direnv>>
           /\ ArgsOf(NodeAt(prev, p)) = <<exec, dot, nvim, file_a>>

----------------------------------------------------------------------------
(* The frame of the whole transform *)

\* outs is ins but for the value of panes' command entry and for panes' args
\* child: the other nodes are the same nodes in the same order, with the same
\* entries at the same positions (a pane's command entry keeps its position),
\* and the args children of nodes that are not panes are untouched.  The
\* whitespace before a node is the same too, but for the first child of a
\* pane that gained an args child, which gives up its leading newlines.
RECURSIVE SameFrame(_, _, _)
SameFrame(ins, outs, in_pane) ==
    LET a == NotArgs(ins)
        b == NotArgs(outs)
    IN  /\ Len(a) = Len(b)
        /\ ~in_pane =>
               /\ Len(ins) = Len(outs)
               /\ \A i \in 1..Len(ins) : ins[i].name = "args" => outs[i] = ins[i]
        /\ \A i \in 1..Len(a) :
               /\ b[i].name = a[i].name
               /\ Len(b[i].entries) = Len(a[i].entries)
               /\ \A j \in 1..Len(a[i].entries) :
                      \/ b[i].entries[j] = a[i].entries[j]
                      \/ /\ a[i].name = "pane"
                         /\ a[i].entries[j].name = <<"command">>
                         /\ b[i].entries[j].name = <<"command">>
               /\ \/ b[i].leading = a[i].leading
                  \/ /\ in_pane /\ i = 1
                     /\ OnlyArgs(ins) = <<>> /\ OnlyArgs(outs) # <<>>
                     /\ b[i].leading = trim_start_matches(a[i].leading, "\n")
               /\ \/ (b[i].children = None) <=> (a[i].children = None)
                  \/ a[i].name = "pane" /\ a[i].children = None
               /\ SameFrame(ChildrenOf(a[i]), ChildrenOf(b[i]), a[i].name = "pane")

\* C9: between the text a pass is given and the text it returns, only the
\* value of panes' command entry and panes' args child differ: every other
\* entry (name, value, position), every other child, every node that is not a
\* pane and the order of the siblings are the same.
C9_Frame == passes >= 1 => SameFrame(prev, content, FALSE)

\* C9's case: a pass has rewritten the command of a pane that has entries
\* before and after `command` and a child of its own, and has given it an
\* args child it did not have.
C9_Witness ==
    /\ passes = 1
    /\ \E p \in PanePaths(prev) :
           LET before == NodeAt(prev, p)
               after == NodeAt(content, p)
           IN  /\ Len(before.entries) = 3
               /\ before.entries[2].name = <<"command">>
               /\ after.entries[2] # before.entries[2]
               /\ NotArgs(ChildrenOf(before)) # <<>>
               /\ ~HasArgsChild(before) /\ HasArgsChild(after)

----------------------------------------------------------------------------
(* Claims about scan_layouts (specification SpecScan) *)

\* The paths of all the files below a directory.
RECURSIVE FilePaths(_, _)
FilePaths(entries, dir) ==
    UNION { IF entries[i].is_dir THEN FilePaths(entries[i].entries, Append(dir, i))
            ELSE {Append(dir, i)} : i \in 1..Len(entries) }

\* The session-layout files the scan has already been through.
Processed == { p \in FilePaths(disk, <<>>) :
                 /\ file_at(disk, p).name = layout_name
                 /\ \A i \in 1..Len(pending) : pending[i] # p }

\* The files the scan has recorded a Change for.
ChangedFiles == { scanned[i].file_path : i \in 1..Len(scanned) }

\* C11: a step of the scan writes a file only when the run is not a dry run
\* and the transform of that file's text records at least one Change, and it
\* writes that file alone; a dry run never changes the disk or the log.
C11_WriteOnlyOnChange ==
    [][ /\ (disk' # disk \/ written' # written) =>
               /\ ~dry_run
               /\ pending # <<>>
               /\ process_kdl_content(file_at(disk, Head(pending)).content).changes # <<>>
               /\ written' = written \cup {Head(pending)}
               /\ \A p \in FilePaths(disk, <<>>) :
                      p # Head(pending) => file_at(disk', p) = file_at(disk, p)
        /\ dry_run => (disk' = disk /\ written' = written /\ log' = log)
      ]_vars

\* C11's case: a run that is not a dry run has returned; it wrote a file and
\* went through a readable session-layout file without writing it.
C11_Witness ==
    /\ ~scanning /\ ~dry_run
    /\ written # {}
    /\ \E p \in Processed : file_at(disk, p).readable /\ p \notin written

\* C12: once scan_layouts has returned, the log has a line exactly when the
\* run was not a dry run and a change was made, and the line's number is the
\* number of changed files.
C12_LogCountsFiles ==
    ~scanning /\ disk # <<>> =>
        /\ (log # <<>>) <=> (~dry_run /\ scanned # <<>>)
        /\ \A i \in 1..Len(log) : log[i] = Cardinality(ChangedFiles)

\* C13: process_kdl_file on a readable file whose text does not parse:
\* process_kdl_content returns the text as it is and no Change, nothing is
\* written or recorded, and the scan goes on to the next file.
C13_FailSoft ==
    [][ (/\ scanning /\ pending # <<>>
         /\ file_at(disk, Head(pending)).readable
         /\ ~parse_is_ok(file_at(disk, Head(pending)).content)) =>
            /\ process_kdl_content(file_at(disk, Head(pending)).content)
                   = [modified |-> file_at(disk, Head(pending)).content, changes |-> <<>>]
            /\ disk' = disk /\ scanned' = scanned /\ written' = written /\ log' = log
            /\ pending' = Tail(pending) /\ scanning'
      ]_vars

\* C13's case: the scan has returned; its first file did not parse and holds
\* an nvim pane, and the file after it was processed and has a Change.
C13_Witness ==
    /\ ~scanning
    /\ Len(disk) = 2
    /\ ~disk[1].is_dir /\ disk[1].name = layout_name /\ disk[1].readable
    /\ ~parse_is_ok(disk[1].content)
    /\ ChangedFiles = {<<2>>}

----------------------------------------------------------------------------
(* Pass-through (specification SpecBoth) *)

\* C14: for a command whose first space-separated token ends in neither
\* "nvim" nor "nvim.exe" (the empty command too) the simplifier returns the
\* command unchanged; and outside a 'dr ' tab a pass leaves a pane whose
\* command does not contain "nvim" as it is and records no Change for it.
C14_PassThrough ==
    /\ (is_some(formatted) /\ ~ends_with(Tokens[1], nvim) /\ ~ends_with(Tokens[1], nvim_exe))
           => unwrap(formatted) = command
    /\ passes >= 1 =>
           \A p \in PanePaths(prev) :
               LET before == NodeAt(prev, p)
                   after == NodeAt(content, p)
               IN  ( /\ HasCommand(before) /\ ~InDrTab(prev, p)
                     /\ ~contains(CommandOf(before), nvim) )
                   =>
                   /\ after.entries = before.entries
                   /\ after.leading = before.leading
                   /\ (after.children = None) <=> (before.children = None)
                   /\ OnlyArgs(ChildrenOf(after)) = OnlyArgs(ChildrenOf(before))
                   /\ Len(changes) =
                          Cardinality({ q \in PanePaths(prev) : q # p /\ Rewrites(prev, q) })

\* C14's case: the simplifier has returned the empty command for the empty
\* command, and a pass has rewritten one pane of a document and left alone
\* its pane with the command sh, outside any 'dr ' tab.
C14_Witness ==
    /\ command = <<>> /\ formatted = Some(<<>>)
    /\ passes = 1
    /\ Len(changes) = 1
    /\ \E p \in PanePaths(prev) :
           /\ ~InDrTab(prev, p)
           /\ StringEntry(NodeAt(prev, p), "command") = <<sh>>
           /\ NodeAt(content, p) = NodeAt(prev, p)

----------------------------------------------------------------------------
(* The Filename Classifier (specification SpecClassify) *)

\* C15: could_be_filename is false exactly for the tokens that hold a NUL
\* byte or one of < > " : | ? ; = and true for every other token, the empty
\* one, ".", ".." and slash-separated paths among them.
C15_ClassifierBoundary ==
    is_some(is_filename) =>
        (unwrap(is_filename) = FALSE) <=>
            \E i \in 1..Len(command) :
                \/ command[i] = NUL
                \/ command[i] = "<" \/ command[i] = ">" \/ command[i] = "\""
                \/ command[i] = ":" \/ command[i] = "|" \/ command[i] = "?"
                \/ command[i] = ";" \/ command[i] = "="

\* C15's case: the classifier has accepted the token "..".
C15_Witness == command = <<".", ".">> /\ is_filename = Some(TRUE)

----------------------------------------------------------------------------
(* The editor binary (specification SpecFmt) *)

\* out is "nvim" followed only by tokens taken from the end of positions 2..n
\* of the command (none of them: "nvim", with or without the space after it).
OnlyLaterTokens(out) ==
    \/ out = nvim
    \/ \E k \in 1..Len(Tokens) :
           out = nvim_sp \o join(SubSeq(Tokens, k + 1, Len(Tokens)), space)

\* C16: for a command whose first token ends in "nvim" or "nvim.exe", the
\* output of the simplifier (of nvim.rs, and of main.rs) is "nvim" followed
\* only by tokens of positions 2..n: the first token is never taken as a file.
C16_BinaryIsNoFile ==
    (ends_with(Tokens[1], nvim) \/ ends_with(Tokens[1], nvim_exe)) =>
        /\ is_some(formatted) => OnlyLaterTokens(unwrap(formatted))
        /\ is_some(printed) => OnlyLaterTokens(unwrap(printed))

\* C20: the simplifier of main.rs (what main prints for RESURRECT_COMMAND)
\* and the simplifier of nvim.rs return the same string for every command.
C20_SimplifiersAgree ==
    (is_some(formatted) /\ is_some(printed)) => unwrap(printed) = unwrap(formatted)

----------------------------------------------------------------------------
(* Panes without a command (specification Spec) *)

\* q lies below p.
Below(q, p) == Len(q) > Len(p) /\ Prefix(q, Len(p)) = p

\* The pass has processed pane q with the flag of its place: in a 'dr ' tab a
\* command other than "direnv" has become "direnv"; elsewhere an nvim command
\* the simplifier changes has become "nvim".
ProcessedWithFlag(q) ==
    LET before == NodeAt(prev, q)
        after == StringEntry(NodeAt(content, q), "command")
    IN  HasCommand(before) =>
            IF InDrTab(prev, q) THEN after = <<direnv>>
            ELSE (contains(CommandOf(before), nvim) /\ format_nvim(FullOf(before)) # FullOf(before))
                     => after = <<nvim>>

\* C17: a pass leaves a pane that has no string-valued command entry as it is
\* and records no Change for it, in a 'dr ' tab and elsewhere, and still
\* processes every pane nested inside it with the flag of its place.
C17_NoCommandPane ==
    passes >= 1 =>
        \A p \in PanePaths(prev) :
            LET before == NodeAt(prev, p)
                after == NodeAt(content, p)
            IN  ~HasCommand(before) =>
                    /\ after.entries = before.entries
                    /\ after.leading = before.leading
                    /\ (after.children = None) <=> (before.children = None)
                    /\ OnlyArgs(ChildrenOf(after)) = OnlyArgs(ChildrenOf(before))
                    /\ Len(changes) = Cardinality({ q \in PanePaths(prev) : Rewrites(prev, q) })
                    /\ \A q \in PanePaths(prev) : Below(q, p) => ProcessedWithFlag(q)

----------------------------------------------------------------------------
(* The position of the args child (specification Spec) *)

\* The index of the first child named args.
FirstArgs(kids) == CHOOSE i \in 1..Len(kids) : kids[i].name = "args" /\ \A j \in 1..(i - 1) : kids[j].name # "args"

\* Child b after the pass is child a before it: the same node, but for what
\* the pass does inside a nested pane and to the whitespace before the node.
SameChild(a, b) ==
    /\ b.name = a.name
    /\ b.entries = a.entries
    /\ a.name # "pane" => b.children = a.children

\* C18: a pass that rewrites the args child of a pane puts the new node at the
\* index of the old one and moves no other child; a pass that gives args to a
\* pane that had none makes it the first child, the former children following
\* in their order; a pass that removes args leaves the other children in
\* their order, untouched, and no child named args.
C18_ArgsPosition ==
    passes >= 1 =>
        \A p \in PanePaths(prev) :
            LET old == ChildrenOf(NodeAt(prev, p))
                new == ChildrenOf(NodeAt(content, p))
            IN  /\ (OnlyArgs(old) # <<>> /\ OnlyArgs(new) # <<>>) =>
                       /\ Len(new) = Len(old)
                       /\ FirstArgs(new) = FirstArgs(old)
                       /\ \A i \in 1..Len(old) :
                              i # FirstArgs(old) => (SameChild(old[i], new[i]) /\ new[i].leading = old[i].leading)
                /\ (OnlyArgs(old) = <<>> /\ OnlyArgs(new) # <<>>) =>
                       /\ Len(new) = Len(old) + 1
                       /\ new[1].name = "args"
                       /\ \A i \in 1..Len(old) : SameChild(old[i], new[i + 1])
                /\ (OnlyArgs(old) # <<>> /\ OnlyArgs(new) = <<>>) =>
                       /\ Len(new) = Len(NotArgs(old))
                       /\ \A i \in 1..Len(new) :
                              SameChild(NotArgs(old)[i], new[i]) /\ new[i].leading = NotArgs(old)[i].leading

\* C18's case: a pass has rewritten the args child of a pane that stands second
\* among its children, after another child.
C18_Witness ==
    /\ passes = 1
    /\ \E p \in PanePaths(prev) :
           LET old == ChildrenOf(NodeAt(prev, p))
               new == ChildrenOf(NodeAt(content, p))
           IN  /\ Len(old) = 2 /\ old[1].name # "args" /\ old[2].name = "args"
               /\ Len(new) = 2 /\ new[2].name = "args"
               /\ new[2] # old[2]
               /\ new[1] = old[1]

----------------------------------------------------------------------------
(* Changes and changed text (specification Spec) *)

\* C19: the Change list a pass returns is non-empty if and only if the text
\* it returns differs from the text it was given.
C19_ChangeIffTextDiffers ==
    passes >= 1 => ((changes # <<>>) <=> (content # prev))

====
